---- MODULE Spec2Model ----
(***************************************************************************)
(* State machine of src/src/lib.rs (sqlite-mcp): the process-wide client   *)
(* GLOBAL_CLIENT, the connect / list-tools / call-tool command path and    *)
(* the streaming registry STREAM_CHANNELS with its production tasks.       *)
(*                                                                         *)
(* Caller threads issue FFI calls.  A call is one step that enters the     *)
(* function and fixes its arguments, followed by one step per              *)
(* blocking point of the function body: the std Mutex around               *)
(* GLOBAL_CLIENT, the tokio Mutex around client.service, a network await,  *)
(* the timed recv of mcp_stream_wait.  The code between two blocking       *)
(* points runs in one step; a function whose first mutex is free when it   *)
(* is entered goes on in the step that enters it, so a thread is at "lock" *)
(* only while another thread holds the mutex.  A return is a state of its  *)
(* own (returned), left by Resume before anything else happens, so that    *)
(* "when the call returns" is a state.  The OnceLock cell around           *)
(* GLOBAL_CLIENT is not modelled: an uninitialised cell and a cell holding *)
(* None are the same to every function.                                    *)
(***************************************************************************)
EXTENDS Integers, Sequences, FiniteSets, TLC

\* ------------------------------------------------------------- bounds
NumThreads == 2     \* caller threads
MaxCalls == 4       \* FFI calls entered in one behaviour
MaxClients == 2     \* McpClient values built by mcp_connect
MaxStreams == 2     \* cap of STREAM_COUNTER
MaxItems == 1       \* tools / content items in one answer of the remote
MaxTimeout == 1     \* largest timeout_ms, in ticks

Threads == 1..NumThreads
ClientIds == 1..MaxClients
StreamIds == 1..MaxStreams

\* ------------------------------------------------- program constants
STREAM_TYPE_TOOL == 0
STREAM_TYPE_TEXT == 1
STREAM_TYPE_ERROR == 2
STREAM_TYPE_DONE == 3

VARIABLES
    pc,              \* per thread: position inside the current FFI call
    op,              \* per thread: the FFI function being executed
    local,           \* per thread: arguments and locals of the call
    rx,              \* per thread: chunks in the receiver still held by init
    returned,        \* the call that has just returned, with its value
    calls,           \* FFI calls entered so far
    cleaned,         \* per stream id: mcp_stream_cleanup calls that ran, 2 for more (history)
    nclients,        \* McpClient values built so far
    GLOBAL_CLIENT,   \* 0 = None, otherwise the stored client
    service,         \* per client: the Option<RunningClient> slot
    global_lock,     \* holder of the GLOBAL_CLIENT mutex (0 = free)
    service_lock,    \* holder of the global client's service mutex
    channels_lock,   \* holder of the STREAM_CHANNELS mutex (0 = free)
    STREAM_COUNTER,
    STREAM_CHANNELS, \* registered stream id -> queued chunks
    task,            \* per stream id: the spawned production task
    sent,            \* per stream id: every chunk given to tx.send (history)
    delivered,       \* per stream id: every chunk handed to a caller (history)
    payload,         \* ArgSpec: the JSON document passed as arguments
    forwarded,       \* ArgSpec: what the call made of it for the remote
    json_str,        \* FieldSpec: the JSON document given to a parse/get function
    index,           \* FieldSpec: tool_index / content_index
    field_name,      \* FieldSpec: the field asked of mcp_get_tool_field
    answer,          \* FieldSpec: the function applied and what it returned
    response,        \* AnswerSpec: an answer of the remote to list_tools / call_tool
    json_result,     \* AnswerSpec: what the command path returns for it
    stream_results   \* AnswerSpec: what polls of the stream return for it

threadVars == <<pc, op, local, rx, returned, calls, cleaned>>
clientVars == <<nclients, GLOBAL_CLIENT, service>>
lockVars == <<global_lock, service_lock, channels_lock>>
streamVars == <<STREAM_COUNTER, STREAM_CHANNELS, task, sent, delivered>>
argVars == <<payload, forwarded>>
fieldVars == <<json_str, index, field_name, answer>>
answerVars == <<response, json_result, stream_results>>
pureVars == <<argVars, fieldVars, answerVars>>
vars == <<threadVars, clientVars, lockVars, streamVars, pureVars>>

\* -------------------------------------------------------------- values
Result(tag, num, data) == [tag |-> tag, num |-> num, data |-> data]
Null == Result("NULL", 0, "")
Void == Result("void", 0, "")
ErrorJson(msg) == Result("error", 0, msg)
OkJson(what) == Result("ok", 0, what)
StreamIdValue(id) == Result("stream_id", id, "")

Chunk(type, data) == [type |-> type, data |-> data]
Done == Chunk("Done", "")

\* stream_id: argument or local of the streaming functions; arguments: kind
\* of the arguments_json payload; timeout_ms: argument of mcp_stream_wait;
\* elapsed: ticks since mcp_stream_wait was entered; left: ticks left on
\* tokio::time::timeout; new_client: the McpClient built by mcp_connect;
\* prior: GLOBAL_CLIENT when mcp_connect was entered (history).
NoLocal == [stream_id |-> 0, arguments |-> "none", timeout_ms |-> 0, elapsed |-> 0,
            left |-> 0, new_client |-> 0, prior |-> 0]
NoReturn == [thread |-> 0, op |-> "none", value |-> Null, args |-> NoLocal]
NoTask == [pc |-> "none", client |-> 0, kind |-> "none", arguments |-> "none", todo |-> <<>>]
NoLock == <<"free", 0>>
ByThread(t) == <<"thread", t>>
ByTask(id) == <<"task", id>>

chunk_to_stream_result(chunk) ==
    CASE chunk.type = "Tool" -> Result("StreamResult", STREAM_TYPE_TOOL, chunk.data)
      [] chunk.type = "Text" -> Result("StreamResult", STREAM_TYPE_TEXT, chunk.data)
      [] chunk.type = "Error" -> Result("StreamResult", STREAM_TYPE_ERROR, chunk.data)
      [] OTHER -> Result("StreamResult", STREAM_TYPE_DONE, "")

ProgramInit ==
    /\ pc = [t \in Threads |-> "idle"]
    /\ op = [t \in Threads |-> "none"]
    /\ local = [t \in Threads |-> NoLocal]
    /\ rx = [t \in Threads |-> <<>>]
    /\ returned = NoReturn
    /\ calls = 0
    /\ cleaned = [id \in StreamIds |-> 0]
    /\ nclients = 0
    /\ GLOBAL_CLIENT = 0
    /\ service = [c \in ClientIds |-> "None"]
    /\ global_lock = 0
    /\ service_lock = NoLock
    /\ channels_lock = 0
    /\ STREAM_COUNTER = 0
    /\ STREAM_CHANNELS = [id \in {} |-> <<>>]
    /\ task = [id \in StreamIds |-> NoTask]
    /\ sent = [id \in StreamIds |-> <<>>]
    /\ delivered = [id \in StreamIds |-> <<>>]

\* No arguments document is under study in the behaviours of the program.
NoPayload == [type |-> "none", members |-> {}]
NotForwarded == [by |-> "none", outcome |-> "none", present |-> FALSE, members |-> {}]

\* No document is given to the parse/get functions.
NoValue == [type |-> "none", text |-> <<>>, fields |-> {}, items |-> <<>>]
NoAnswer == [fn |-> "none", count |-> 0, null |-> FALSE, text |-> <<>>]

NoFieldCall ==
    /\ json_str = NoValue
    /\ index = 0
    /\ field_name = "none"
    /\ answer = NoAnswer

\* No answer of the remote is under study.
NoResponse == [kind |-> "none", ok |-> FALSE, items |-> <<>>]
NoJson == [made |-> FALSE, error |-> FALSE, items |-> <<>>]

NoAnswerCall ==
    /\ response = NoResponse
    /\ json_result = NoJson
    /\ stream_results = <<>>

Init ==
    /\ ProgramInit
    /\ payload = NoPayload
    /\ forwarded = NotForwarded
    /\ NoFieldCall
    /\ NoAnswerCall

\* A service mutex that is granted whoever holds it.
ServiceFree_always == TRUE

\* client.service.lock().await can be granted: nobody holds the guard.
ServiceFree == service_lock = NoLock

\* No call is returning, and thread t is at position p.
At(t, p) == returned = NoReturn /\ pc[t] = p

\* No call is returning, and the task of stream id is at position p.
TaskAt(id, p) == returned = NoReturn /\ task[id].pc = p

\* Thread t enters a function.  Idle threads are alike (no locals, no
\* receiver): the idle thread of lowest number takes the call.
Called(t) ==
    /\ At(t, "idle")
    /\ \A u \in Threads : u < t => pc[u] # "idle"
    /\ calls < MaxCalls
    /\ calls' = calls + 1
    /\ UNCHANGED pureVars

\* Thread t goes on from position p of the function it is in.
Continue(t, p) ==
    /\ At(t, p)
    /\ UNCHANGED <<calls, pureVars>>

\* Thread t is now at position p of function f with locals l.
Block(t, f, l, p) ==
    /\ pc' = [pc EXCEPT ![t] = p]
    /\ op' = [op EXCEPT ![t] = f]
    /\ local' = [local EXCEPT ![t] = l]
    /\ UNCHANGED returned

\* Function f, run by thread t with locals l, returns r: the locals are gone.
Return(t, f, l, r) ==
    /\ returned' = [thread |-> t, op |-> f, value |-> r, args |-> l]
    /\ pc' = [pc EXCEPT ![t] = "idle"]
    /\ op' = [op EXCEPT ![t] = "none"]
    /\ local' = [local EXCEPT ![t] = NoLocal]

\* The caller has the returned value.
Resume ==
    /\ returned # NoReturn
    /\ returned' = NoReturn
    /\ UNCHANGED <<pc, op, local, rx, calls, cleaned, clientVars, lockVars, streamVars, pureVars>>

\* ------------------------------------------- the result string of mcp_connect
\* A text is a sequence of atoms: the characters that matter to a JSON
\* parser and to CString, and words of other characters.
QUOTE == "\""
BACKSLASH == "\\"
LBRACE == "{"
RBRACE == "}"
COLON == ":"
COMMA == ","
NUL == "NUL"
U0000 == "u0000"

JsonFail == [ok |-> FALSE, value |-> <<>>, next |-> 0]

\* serde_json reads a string whose opening quote precedes s[j]: a raw
\* control character and an unknown escape are errors.
RECURSIVE ScanString(_, _, _)
ScanString(s, j, acc) ==
    IF j > Len(s) THEN JsonFail
    ELSE IF s[j] = QUOTE THEN [ok |-> TRUE, value |-> acc, next |-> j + 1]
    ELSE IF s[j] = NUL THEN JsonFail
    ELSE IF s[j] = BACKSLASH
    THEN IF j + 1 > Len(s) THEN JsonFail
         ELSE IF s[j + 1] \in {QUOTE, BACKSLASH} THEN ScanString(s, j + 2, Append(acc, s[j + 1]))
         ELSE IF s[j + 1] = U0000 THEN ScanString(s, j + 2, Append(acc, NUL))
         ELSE JsonFail
    ELSE ScanString(s, j + 1, Append(acc, s[j]))

\* serde_json reads the members of an object from s[i] on: "key": "value"
\* pairs separated by commas, closed by the brace that ends the text.
RECURSIVE ParseMembers(_, _, _)
ParseMembers(s, i, members) ==
    IF i > Len(s) \/ s[i] # QUOTE THEN JsonFail
    ELSE LET k == ScanString(s, i + 1, <<>>)
         IN IF ~k.ok \/ k.next + 1 > Len(s) \/ s[k.next] # COLON \/ s[k.next + 1] # QUOTE
            THEN JsonFail
            ELSE LET v == ScanString(s, k.next + 2, <<>>)
                     m == Append(members, <<k.value, v.value>>)
                 IN IF ~v.ok \/ v.next > Len(s) THEN JsonFail
                    ELSE IF s[v.next] = COMMA THEN ParseMembers(s, v.next + 1, m)
                    ELSE IF s[v.next] = RBRACE /\ v.next = Len(s)
                    THEN [ok |-> TRUE, value |-> m, next |-> v.next + 1]
                    ELSE JsonFail

\* serde_json::from_str::<Value> on a text that starts an object.
from_str(s) ==
    IF Len(s) < 2 \/ s[1] # LBRACE THEN JsonFail
    ELSE IF s[2] = RBRACE THEN [ok |-> Len(s) = 2, value |-> <<>>, next |-> 3]
    ELSE ParseMembers(s, 2, <<>>)

\* json.get(key).and_then(|v| v.as_str()): a later member of the same key
\* replaces an earlier one.
Get(members, key) ==
    LET at == {i \in 1..Len(members) : members[i][1] = key}
    IN IF at = {} THEN <<"absent">>
       ELSE members[CHOOSE i \in at : \A j \in at : j <= i][2]

\* serde_json::to_string of a string: quoted, with quote, backslash and
\* control characters escaped.
RECURSIVE Escape(_)
Escape(x) ==
    IF x = <<>> THEN <<>>
    ELSE (IF Head(x) \in {QUOTE, BACKSLASH} THEN <<BACKSLASH, Head(x)>>
          ELSE IF Head(x) = NUL THEN <<BACKSLASH, U0000>>
          ELSE <<Head(x)>>) \o Escape(Tail(x))

to_string(x) == <<QUOTE>> \o Escape(x) \o <<QUOTE>>

\* format!(r#"{{"error": "<what>: {}"}}"#, detail): the detail goes in as it is.
ErrorText(what, detail) ==
    <<LBRACE, QUOTE, "error", QUOTE, COLON, QUOTE, what, COLON>> \o detail \o <<QUOTE, RBRACE>>

\* The result_msg of a completed handshake.
ConnectedText(server) ==
    <<LBRACE, QUOTE, "status", QUOTE, COLON, QUOTE, "connected", QUOTE, COMMA,
      QUOTE, "server", QUOTE, COLON>> \o to_string(server) \o
    <<COMMA, QUOTE, "transport", QUOTE, COLON, QUOTE, "sse", QUOTE, RBRACE>>

\* A text that closes the string it is put into and adds a status member.
Injection ==
    <<"x", QUOTE, COMMA, QUOTE, "status", QUOTE, COLON, QUOTE, "connected", QUOTE,
      COMMA, QUOTE, "y", QUOTE, COLON, QUOTE, "z">>

\* Header names and values of headers_json, names the server reports, and
\* texts of the errors of the HTTP client, the transport and the handshake.
HeaderNames == {<<"X-Token">>, <<"X", QUOTE>>, <<"X", NUL>>, Injection}
HeaderValues == {<<"v">>, <<"v", QUOTE>>, <<"v", NUL>>}
ServerNames == {<<"srv">>, <<"s", QUOTE, "v">>, <<"s", NUL>>, Injection}
ErrorTexts == {<<"refused">>, <<"bad", QUOTE, "reply">>, <<"eof", NUL>>, Injection}

\* HeaderName::from_bytes accepts token characters only; HeaderValue::from_str
\* refuses control characters.
ValidName(key) == \A i \in 1..Len(key) : key[i] \notin {QUOTE, BACKSLASH, COLON, COMMA, NUL, LBRACE, RBRACE}
ValidValue(value) == \A i \in 1..Len(value) : value[i] # NUL

\* The results of the handshakes that fail.
FailureTexts ==
    {ErrorText("Invalid header format", k \o <<COLON>> \o v) :
        k \in {n \in HeaderNames : ~ValidName(n)}, v \in HeaderValues}
    \cup {ErrorText("Invalid header format", k \o <<COLON>> \o v) :
        k \in HeaderNames, v \in {w \in HeaderValues : ~ValidValue(w)}}
    \cup {ErrorText("Failed to connect to MCP server", e) : e \in ErrorTexts}

\* CString::new(result): NULL when the text holds a NUL character.
CStringOrNull(result) ==
    IF \E i \in 1..Len(result) : result[i] = NUL THEN Null ELSE ErrorJson(result[7])

\* The value mcp_connect returns for a result string: NULL when it parses
\* as JSON whose "status" is "connected", the string itself otherwise.
connect_return(result) ==
    LET json == from_str(result)
    IN IF json.ok /\ Get(json.value, <<"status">>) = <<"connected">>
       THEN Null
       ELSE CStringOrNull(result)

\* ------------------------------------------------------------ mcp_connect
\* Tasks spawned on a client's runtime are dropped with it at their await
\* point: waiting for the service mutex or for the remote's answer.
CancelTasks(c) ==
    [id \in StreamIds |->
        IF task[id].client = c /\ task[id].pc \in {"start", "req"}
        THEN [task[id] EXCEPT !.pc = "cancelled"]
        ELSE task[id]]

\* Dropping a runtime waits for the task polls that are running on it.
RuntimeQuiescent(c) == \A id \in StreamIds : ~(task[id].client = c /\ task[id].pc = "push")

\* A required input that is a NULL pointer or is not valid UTF-8.
InvalidInputs == {"null", "invalid_utf8"}

\* The error string of mcp_connect for an input it refuses before building
\* a client: NULL server_url, invalid UTF-8, unusable headers_json.
ConnectRefusal(a) ==
    IF a = "null" THEN ErrorJson("Invalid arguments")
    ELSE IF a = "invalid_utf8" THEN ErrorJson("Invalid server URL")
    ELSE ErrorJson("Invalid headers JSON format")

\* NULL server_url, invalid UTF-8, unparsable headers_json, or the runtime
\* cannot be created: an error string, nothing else happens.
mcp_connect_invalid(t) ==
    /\ Called(t)
    /\ \E a \in InvalidInputs \cup {"headers"} :
           Return(t, "mcp_connect", [NoLocal EXCEPT !.arguments = a], ConnectRefusal(a))
    /\ UNCHANGED <<rx, cleaned, clientVars, lockVars, streamVars>>

\* mcp_client_free: the handle given (NULL, or a client of mcp_client_new,
\* which is never the stored one) is dropped.  GLOBAL_CLIENT, its session
\* and its runtime are not touched; the FFI has no other teardown call.
mcp_client_free(t) ==
    /\ Called(t)
    /\ Return(t, "mcp_client_free", NoLocal, Void)
    /\ UNCHANGED <<rx, cleaned, clientVars, lockVars, streamVars>>

\* The inputs are valid: a new McpClient (own runtime, empty service slot) is
\* built and the handshake starts on its runtime.
mcp_connect_call(t) ==
    /\ Called(t)
    /\ nclients < MaxClients
    /\ nclients' = nclients + 1
    /\ Block(t, "mcp_connect",
             [NoLocal EXCEPT !.new_client = nclients + 1, !.prior = GLOBAL_CLIENT], "handshake")
    /\ UNCHANGED <<rx, cleaned, GLOBAL_CLIENT, service, lockVars, streamVars>>

\* A client whose service slot is left as it was built.
SetService_skipped(s, c) == s

\* *new_client.service.lock().await = Some(service)
SetService(s, c) == [s EXCEPT ![c] = "Some"]

\* The handshake block ends with (result, maybe_service).  Some: the session
\* is established and put into new_client.service.
mcp_connect_established(t) ==
    /\ Continue(t, "handshake")
    /\ service' = SetService(service, local[t].new_client)
    /\ Block(t, op[t], local[t], "store")
    /\ UNCHANGED <<rx, cleaned, nclients, GLOBAL_CLIENT, lockVars, streamVars>>

\* None (a header, the HTTP client, the transport or the handshake failed):
\* the error is returned and new_client is dropped; GLOBAL_CLIENT is not touched.
mcp_connect_failed(t) ==
    /\ Continue(t, "handshake")
    /\ \E result \in FailureTexts : Return(t, op[t], local[t], connect_return(result))
    /\ UNCHANGED <<rx, cleaned, clientVars, lockVars, streamVars>>

\* A store that drops the receivers of the streams with the old client.
RegistryAfterStore_cleared(channels) == << >>

\* The store writes GLOBAL_CLIENT alone: the registry is a separate static.
RegistryAfterStore(channels) == channels

\* The GLOBAL_CLIENT mutex is free and the runtime of the stored client, if
\* any, can be dropped.
StoreReady ==
    /\ global_lock = 0
    /\ GLOBAL_CLIENT # 0 => RuntimeQuiescent(GLOBAL_CLIENT)

\* *global_client.lock().unwrap() = Some(new_client): the previous client is
\* dropped, with its runtime (its tasks) and its session.  The result string
\* of the handshake decides what is returned.
mcp_connect_store(t) ==
    /\ Continue(t, "store")
    /\ StoreReady
    /\ GLOBAL_CLIENT' = local[t].new_client
    /\ service' = [c \in ClientIds |-> IF c = GLOBAL_CLIENT THEN "Cancelled" ELSE service[c]]
    /\ task' = IF GLOBAL_CLIENT # 0 THEN CancelTasks(GLOBAL_CLIENT) ELSE task
    /\ service_lock' = NoLock
    /\ \E server \in ServerNames :
          Return(t, op[t], local[t], connect_return(ConnectedText(server)))
    /\ STREAM_CHANNELS' = RegistryAfterStore(STREAM_CHANNELS)
    /\ UNCHANGED <<rx, cleaned, nclients, global_lock, channels_lock>>
    /\ UNCHANGED <<STREAM_COUNTER, sent, delivered>>

\* ------------------------------- mcp_list_tools_json, mcp_call_tool_json
CmdOps == {"mcp_list_tools_json", "mcp_call_tool_json"}

NotConnected == ErrorJson("Not connected. Call mcp_connect() first")

\* A lookup that answers as if the request had been made when GLOBAL_CLIENT
\* holds no client.
CmdLocked_answers(t, f, l) ==
    /\ Return(t, f, l, OkJson("payload"))
    /\ UNCHANGED <<global_lock, service_lock>>

\* The global client is looked up under its mutex.  None: the not-connected
\* error.  Some: block_on starts with the mutex held and asks for the
\* service mutex; with the session in hand the request is sent.
CmdLocked(t, f, l) ==
    IF GLOBAL_CLIENT = 0
    THEN /\ Return(t, f, l, NotConnected)
         /\ UNCHANGED <<global_lock, service_lock>>
    ELSE /\ global_lock' = t
         /\ IF ServiceFree /\ service[GLOBAL_CLIENT] = "Some"
            THEN /\ service_lock' = ByThread(t)
                 /\ Block(t, f, l, "req")
            ELSE /\ Block(t, f, l, "svc")
                 /\ UNCHANGED service_lock

\* A function whose first step is to take the GLOBAL_CLIENT mutex is
\* entered: it goes on under the mutex, or waits for it.
LockOr(t, f, l, locked) ==
    IF global_lock = 0
    THEN locked
    ELSE /\ Block(t, f, l, "lock")
         /\ UNCHANGED <<lockVars, STREAM_CHANNELS, delivered, cleaned>>

mcp_list_tools_json(t) ==
    /\ Called(t)
    /\ LockOr(t, "mcp_list_tools_json", NoLocal, CmdLocked(t, "mcp_list_tools_json", NoLocal))
    /\ UNCHANGED <<rx, cleaned, clientVars, channels_lock, streamVars>>

\* What an arguments text can be: a JSON object, another JSON value, or
\* text that serde_json::from_str refuses.
ArgumentKinds == {"object", "non_object", "malformed"}

\* serde_json::from_str(arguments) is Ok.
Parses(a) == a # "malformed"

\* The error string of mcp_call_tool_json for an input it refuses before
\* looking up the client.
CallToolRefusal(a) ==
    IF a = "null" THEN ErrorJson("Invalid arguments")
    ELSE IF a = "invalid_utf8" THEN ErrorJson("Invalid arguments JSON")
    ELSE ErrorJson("Invalid JSON")

\* mcp_call_tool_json: NULL and non-UTF-8 inputs and arguments that do not
\* parse are refused at once; otherwise the client is looked up.
mcp_call_tool_json(t) ==
    /\ Called(t)
    /\ \E a \in InvalidInputs \cup ArgumentKinds :
         LET l == [NoLocal EXCEPT !.arguments = a]
         IN  IF a \in InvalidInputs \/ ~Parses(a)
             THEN /\ Return(t, "mcp_call_tool_json", l, CallToolRefusal(a))
                  /\ UNCHANGED <<global_lock, service_lock>>
             ELSE LockOr(t, "mcp_call_tool_json", l, CmdLocked(t, "mcp_call_tool_json", l))
    /\ UNCHANGED <<rx, cleaned, clientVars, channels_lock, streamVars>>

\* The GLOBAL_CLIENT mutex is granted to a waiting list-tools / call-tool.
cmd_lock(t) ==
    /\ Continue(t, "lock") /\ op[t] \in CmdOps
    /\ global_lock = 0
    /\ CmdLocked(t, op[t], local[t])
    /\ UNCHANGED <<rx, cleaned, clientVars, channels_lock, streamVars>>

\* client.service.lock().await is granted.
cmd_service(t) ==
    /\ Continue(t, "svc") /\ op[t] \in CmdOps
    /\ ServiceFree
    /\ IF service[GLOBAL_CLIENT] = "Some"
       THEN /\ service_lock' = ByThread(t)
            /\ Block(t, op[t], local[t], "req")
            /\ UNCHANGED global_lock
       ELSE /\ Return(t, op[t], local[t], ErrorJson("Not connected to server"))
            /\ global_lock' = 0
            /\ UNCHANGED service_lock
    /\ UNCHANGED <<rx, cleaned, clientVars, channels_lock, streamVars>>

\* An answer after which the caller keeps the GLOBAL_CLIENT mutex.
cmd_respond_keeps_lock(t) ==
    /\ Continue(t, "req") /\ op[t] \in CmdOps
    /\ Return(t, op[t], local[t], OkJson("payload"))
    /\ service_lock' = NoLock
    /\ UNCHANGED <<rx, cleaned, clientVars, global_lock, channels_lock, streamVars>>

\* The remote answers (or the transport fails); both mutexes are released.
cmd_respond(t) ==
    /\ Continue(t, "req") /\ op[t] \in CmdOps
    /\ \E r \in {OkJson("payload"), ErrorJson("request failed")} : Return(t, op[t], local[t], r)
    /\ global_lock' = 0
    /\ service_lock' = NoLock
    /\ UNCHANGED <<rx, cleaned, clientVars, channels_lock, streamVars>>

\* ------------------------------------------------------- streaming API
InitOps == {"mcp_list_tools_init", "mcp_call_tool_init"}

Registered(id) == id \in DOMAIN STREAM_CHANNELS

\* The thread inside mcp_*_init that still holds the receiver of stream id.
LocalHolder(id) == {t \in Threads : pc[t] \in {"spawn", "register"} /\ local[t].stream_id = id}

\* A sender of the channel exists: the production task has not ended, or
\* (no task was spawned) the init call that owns tx has not returned.
TxAlive(id) ==
    \/ task[id].pc \in {"start", "req", "push"}
    \/ task[id].pc = "none" /\ LocalHolder(id) # {}

\* A send that queues the chunk under the stream id whether or not the
\* receiver still exists.
Send_reopen(id, chunk) ==
    /\ STREAM_CHANNELS' = [i \in DOMAIN STREAM_CHANNELS \cup {id} |->
                              IF i # id THEN STREAM_CHANNELS[i]
                              ELSE IF Registered(id) THEN Append(STREAM_CHANNELS[id], chunk)
                              ELSE <<chunk>>]
    /\ UNCHANGED rx
    /\ sent' = [sent EXCEPT ![id] = Append(@, chunk)]

\* A send that reaches every registered receiver.
Send_broadcast(id, chunk) ==
    /\ STREAM_CHANNELS' = [i \in DOMAIN STREAM_CHANNELS |-> Append(STREAM_CHANNELS[i], chunk)]
    /\ rx' = [t \in Threads |-> IF t \in LocalHolder(id) THEN Append(rx[t], chunk) ELSE rx[t]]
    /\ sent' = [sent EXCEPT ![id] = Append(@, chunk)]

\* tx.send(chunk): queued while the receiver exists, refused (and ignored by
\* the caller, "let _ =") once it was dropped.
Send(id, chunk) ==
    /\ STREAM_CHANNELS' = IF Registered(id)
                          THEN [STREAM_CHANNELS EXCEPT ![id] = Append(@, chunk)]
                          ELSE STREAM_CHANNELS
    /\ rx' = [t \in Threads |-> IF t \in LocalHolder(id) THEN Append(rx[t], chunk) ELSE rx[t]]
    /\ sent' = [sent EXCEPT ![id] = Append(@, chunk)]

\* What the remote may answer: a failure, or up to MaxItems tools / content items.
ListAnswers ==
    {[ok |-> FALSE, items |-> <<>>]} \cup
    {[ok |-> TRUE, items |-> [i \in 1..n |-> "tool"]] : n \in 0..MaxItems}

CallAnswers ==
    {[ok |-> FALSE, items |-> <<>>]} \cup
    {[ok |-> TRUE, items |-> c] : c \in UNION {[1..n -> {"text", "image"}] : n \in 0..MaxItems}}

ToolChunks(items) == [i \in 1..Len(items) |-> Chunk("Tool", ToString(i))]

\* Only the content items of type "text" become chunks.
TextChunks(items) ==
    LET f[i \in 0..Len(items)] ==
            IF i = 0 THEN <<>>
            ELSE IF items[i] = "text" THEN Append(f[i - 1], Chunk("Text", ToString(i)))
            ELSE f[i - 1]
    IN f[Len(items)]

\* A list_tools task that sends Done before the tools.
ListToolsChunks_done_first(ans) == <<Done>> \o ToolChunks(ans.items)

\* The sends of the list_tools task after the remote's answer.
ListToolsChunks(ans) ==
    IF ans.ok THEN ToolChunks(ans.items) \o <<Done>>
    ELSE <<Chunk("Error", "Failed to list tools"), Done>>

\* The sends of the call_tool task after the remote's answer.
CallToolChunks(ans) ==
    IF ans.ok THEN TextChunks(ans.items) \o <<Done>>
    ELSE <<Chunk("Error", "Failed to call tool"), Done>>

\* The sends of the init call itself when GLOBAL_CLIENT holds no client.
NoClientChunks == <<Chunk("Error", "Client not initialized"), Done>>

\* A counter that stays where it is once it has left 0.
Increment_once(n) == IF n = 0 THEN 1 ELSE n

\* *counter += 1 under the STREAM_COUNTER mutex.
Increment(n) == n + 1

\* mcp_list_tools_init: the next stream id is taken and the channel created.
mcp_list_tools_init(t) ==
    /\ Called(t)
    /\ STREAM_COUNTER < MaxStreams
    /\ STREAM_COUNTER' = Increment(STREAM_COUNTER)
    /\ Block(t, "mcp_list_tools_init", [NoLocal EXCEPT !.stream_id = STREAM_COUNTER'], "spawn")
    /\ UNCHANGED <<rx, cleaned, clientVars, lockVars, STREAM_CHANNELS, task, sent, delivered>>

\* mcp_call_tool_init with valid strings; arguments may or may not parse.
mcp_call_tool_init(t) ==
    /\ Called(t)
    /\ STREAM_COUNTER < MaxStreams
    /\ STREAM_COUNTER' = Increment(STREAM_COUNTER)
    /\ \E a \in ArgumentKinds :
           Block(t, "mcp_call_tool_init",
                 [NoLocal EXCEPT !.stream_id = STREAM_COUNTER', !.arguments = a], "spawn")
    /\ UNCHANGED <<rx, cleaned, clientVars, lockVars, STREAM_CHANNELS, task, sent, delivered>>

\* The counter after a call that was refused, had the id been taken first.
Refused_after_count(n) == IF n < MaxStreams THEN n + 1 ELSE n

\* The counter after a call that was refused before fetch_add.
Refused(n) == n

\* mcp_call_tool_init with a NULL or non-UTF-8 string: 0, before the counter.
mcp_call_tool_init_invalid(t) ==
    /\ Called(t)
    /\ \E a \in InvalidInputs :
           Return(t, "mcp_call_tool_init", [NoLocal EXCEPT !.arguments = a], StreamIdValue(0))
    /\ STREAM_COUNTER' = Refused(STREAM_COUNTER)
    /\ UNCHANGED <<rx, cleaned, clientVars, lockVars, STREAM_CHANNELS, task, sent, delivered>>

\* First critical section of init: with a client the production task is
\* spawned on its runtime; without one the Error and Done chunks are sent
\* by the caller itself.
init_spawn(t) ==
    /\ Continue(t, "spawn")
    /\ global_lock = 0
    /\ Block(t, op[t], local[t], "register")
    /\ IF GLOBAL_CLIENT # 0
       THEN /\ task' = [task EXCEPT ![local[t].stream_id] =
                    [pc |-> "start", client |-> GLOBAL_CLIENT,
                     kind |-> IF op[t] = "mcp_list_tools_init" THEN "list_tools" ELSE "call_tool",
                     arguments |-> local[t].arguments, todo |-> <<>>]]
            /\ UNCHANGED <<rx, sent>>
       ELSE /\ rx' = [rx EXCEPT ![t] = NoClientChunks]
            /\ sent' = [sent EXCEPT ![local[t].stream_id] = NoClientChunks]
            /\ UNCHANGED task
    /\ UNCHANGED <<cleaned, clientVars, lockVars, STREAM_COUNTER, STREAM_CHANNELS, delivered>>

\* channels.insert(stream_id, rx)
Insert(channels, id, q) ==
    [i \in DOMAIN channels \cup {id} |-> IF i = id THEN q ELSE channels[i]]

\* The receiver is inserted into STREAM_CHANNELS if a client is stored,
\* and dropped at the end of the function otherwise.
Register(channels, id, q) ==
    IF GLOBAL_CLIENT # 0 THEN Insert(channels, id, q) ELSE channels

\* Second critical section of init; the id is returned.
init_register(t) ==
    /\ Continue(t, "register")
    /\ global_lock = 0
    /\ STREAM_CHANNELS' = Register(STREAM_CHANNELS, local[t].stream_id, rx[t])
    /\ rx' = [rx EXCEPT ![t] = <<>>]
    /\ Return(t, op[t], local[t], StreamIdValue(local[t].stream_id))
    /\ UNCHANGED <<cleaned, clientVars, lockVars, STREAM_COUNTER, task, sent, delivered>>

\* The production task of stream id ends: its guard and its tx are dropped.
TaskEnd(id) ==
    /\ task' = [task EXCEPT ![id] = [@ EXCEPT !.pc = "done", !.todo = <<>>]]
    /\ service_lock' = NoLock

\* The task sends the first chunk of cs and keeps the rest for its next sends.
TaskSend(id, cs) ==
    /\ Send(id, Head(cs))
    /\ IF Len(cs) = 1
       THEN TaskEnd(id)
       ELSE /\ task' = [task EXCEPT ![id] = [@ EXCEPT !.pc = "push", !.todo = Tail(cs)]]
            /\ service_lock' = ByTask(id)

\* service_arc.lock().await is granted to the task.  Without a session, or
\* (call_tool) with arguments that do not parse, the task fails at once;
\* otherwise the request goes out and the task awaits the answer.
task_start(id) ==
    /\ TaskAt(id, "start")
    /\ ServiceFree
    /\ IF service[task[id].client] # "Some"
       THEN TaskSend(id, <<Chunk("Error", "Not connected. Call mcp_connect() first"), Done>>)
       ELSE IF task[id].kind = "call_tool" /\ ~Parses(task[id].arguments)
       THEN TaskSend(id, <<Chunk("Error", "Invalid JSON arguments"), Done>>)
       ELSE /\ task' = [task EXCEPT ![id] = [@ EXCEPT !.pc = "req"]]
            /\ service_lock' = ByTask(id)
            /\ UNCHANGED <<STREAM_CHANNELS, rx, sent>>
    /\ UNCHANGED <<pc, op, local, returned, calls, cleaned, pureVars>>
    /\ UNCHANGED <<clientVars, global_lock, channels_lock, STREAM_COUNTER, delivered>>

\* The remote answers the task's request (or the request fails).
task_respond(id) ==
    /\ TaskAt(id, "req")
    /\ IF task[id].kind = "list_tools"
       THEN \E ans \in ListAnswers : TaskSend(id, ListToolsChunks(ans))
       ELSE \E ans \in CallAnswers : TaskSend(id, CallToolChunks(ans))
    /\ UNCHANGED <<pc, op, local, returned, calls, cleaned, pureVars>>
    /\ UNCHANGED <<clientVars, global_lock, channels_lock, STREAM_COUNTER, delivered>>

\* The task's next tx.send.
task_push(id) ==
    /\ TaskAt(id, "push")
    /\ TaskSend(id, task[id].todo)
    /\ UNCHANGED <<pc, op, local, returned, calls, cleaned, pureVars>>
    /\ UNCHANGED <<clientVars, global_lock, channels_lock, STREAM_COUNTER, delivered>>

\* ---------------------------- mcp_stream_next / _wait / _cleanup
\* The ids a caller passes: those handed out so far and one never handed out.
KnownIds == {id \in StreamIds : id <= STREAM_COUNTER + 1}

\* A receive that takes the chunk queued last.
Deliver_last(t, f, l) ==
    LET q == STREAM_CHANNELS[l.stream_id]
    IN /\ STREAM_CHANNELS' = [STREAM_CHANNELS EXCEPT ![l.stream_id] = SubSeq(q, 1, Len(q) - 1)]
       /\ delivered' = [delivered EXCEPT ![l.stream_id] = Append(@, q[Len(q)])]
       /\ Return(t, f, l, chunk_to_stream_result(q[Len(q)]))

\* The head of the queue of stream id is received and handed to the caller.
Deliver(t, f, l) ==
    /\ STREAM_CHANNELS' = [STREAM_CHANNELS EXCEPT ![l.stream_id] = Tail(@)]
    /\ delivered' = [delivered EXCEPT ![l.stream_id] = Append(@, Head(STREAM_CHANNELS[l.stream_id]))]
    /\ Return(t, f, l, chunk_to_stream_result(Head(STREAM_CHANNELS[l.stream_id])))

\* What mcp_stream_next returns when try_recv fails (nothing queued, or the
\* channel is closed and drained).
NoData == Null

\* What mcp_stream_next returns when the id is not in STREAM_CHANNELS or no
\* client is stored.
UnknownStream == Null

\* mcp_stream_next under the GLOBAL_CLIENT mutex: no client, an unknown id
\* and a failed try_recv (empty or disconnected) all give NULL.
NextLocked(t, f, l) ==
    /\ IF GLOBAL_CLIENT = 0 \/ ~Registered(l.stream_id)
       THEN /\ Return(t, f, l, UnknownStream)
            /\ UNCHANGED <<STREAM_CHANNELS, delivered>>
       ELSE IF STREAM_CHANNELS[l.stream_id] = <<>>
       THEN /\ Return(t, f, l, NoData)
            /\ UNCHANGED <<STREAM_CHANNELS, delivered>>
       ELSE Deliver(t, f, l)
    /\ UNCHANGED lockVars

mcp_stream_next(t) ==
    /\ Called(t)
    /\ \E id \in KnownIds :
          LET l == [NoLocal EXCEPT !.stream_id = id]
          IN LockOr(t, "mcp_stream_next", l, NextLocked(t, "mcp_stream_next", l))
    /\ UNCHANGED <<rx, cleaned, clientVars, STREAM_COUNTER, task, sent>>

stream_next_lock(t) ==
    /\ Continue(t, "lock") /\ op[t] = "mcp_stream_next"
    /\ global_lock = 0
    /\ NextLocked(t, op[t], local[t])
    /\ UNCHANGED <<rx, cleaned, clientVars, STREAM_COUNTER, task, sent>>

\* mcp_stream_wait under the GLOBAL_CLIENT mutex: no client or an unknown id
\* give NULL, a queued chunk is returned at once; otherwise the thread
\* awaits timeout(recv) holding the GLOBAL_CLIENT and STREAM_CHANNELS
\* mutexes.  The timeout runs from here.
WaitLocked(t, f, l) ==
    IF GLOBAL_CLIENT = 0 \/ ~Registered(l.stream_id)
    THEN /\ Return(t, f, l, Null)
         /\ UNCHANGED <<STREAM_CHANNELS, delivered, lockVars>>
    ELSE IF STREAM_CHANNELS[l.stream_id] # <<>>
    THEN /\ Deliver(t, f, l)
         /\ UNCHANGED lockVars
    ELSE /\ Block(t, f, [l EXCEPT !.left = l.timeout_ms], "recv")
         /\ global_lock' = t
         /\ channels_lock' = t
         /\ UNCHANGED <<service_lock, STREAM_CHANNELS, delivered>>

mcp_stream_wait(t) ==
    /\ Called(t)
    /\ \E id \in KnownIds, ms \in 0..MaxTimeout :
          LET l == [NoLocal EXCEPT !.stream_id = id, !.timeout_ms = ms]
          IN LockOr(t, "mcp_stream_wait", l, WaitLocked(t, "mcp_stream_wait", l))
    /\ UNCHANGED <<rx, cleaned, clientVars, STREAM_COUNTER, task, sent>>

stream_wait_lock(t) ==
    /\ Continue(t, "lock") /\ op[t] = "mcp_stream_wait"
    /\ global_lock = 0
    /\ WaitLocked(t, op[t], local[t])
    /\ UNCHANGED <<rx, cleaned, clientVars, STREAM_COUNTER, task, sent>>

\* A chunk arrives while the thread waits.
stream_wait_recv(t) ==
    /\ Continue(t, "recv")
    /\ STREAM_CHANNELS[local[t].stream_id] # <<>>
    /\ Deliver(t, op[t], local[t])
    /\ global_lock' = 0
    /\ channels_lock' = 0
    /\ UNCHANGED <<rx, cleaned, clientVars, service_lock, STREAM_COUNTER, task, sent>>

\* recv gives None (every sender is gone) or the timeout elapses: NULL.
stream_wait_none(t) ==
    /\ Continue(t, "recv")
    /\ STREAM_CHANNELS[local[t].stream_id] = <<>>
    /\ ~TxAlive(local[t].stream_id) \/ local[t].left = 0
    /\ Return(t, op[t], local[t], Null)
    /\ global_lock' = 0
    /\ channels_lock' = 0
    /\ UNCHANGED <<rx, cleaned, clientVars, service_lock, streamVars>>

\* channels.clear() in place of channels.remove(&stream_id)
Remove_all(channels, id) == [i \in {} |-> <<>>]

\* channels.remove(&stream_id)
Remove(channels, id) == [i \in DOMAIN channels \ {id} |-> channels[i]]

\* mcp_stream_cleanup under the GLOBAL_CLIENT mutex.
CleanupLocked(t, f, l) ==
    /\ STREAM_CHANNELS' = IF GLOBAL_CLIENT # 0
                          THEN Remove(STREAM_CHANNELS, l.stream_id)
                          ELSE STREAM_CHANNELS
    /\ cleaned' = [cleaned EXCEPT ![l.stream_id] = IF @ < 2 THEN @ + 1 ELSE @]
    /\ Return(t, f, l, Void)
    /\ UNCHANGED <<lockVars, delivered>>

mcp_stream_cleanup(t) ==
    /\ Called(t)
    /\ \E id \in KnownIds :
          LET l == [NoLocal EXCEPT !.stream_id = id]
          IN LockOr(t, "mcp_stream_cleanup", l, CleanupLocked(t, "mcp_stream_cleanup", l))
    /\ UNCHANGED <<rx, clientVars, STREAM_COUNTER, task, sent>>

stream_cleanup_lock(t) ==
    /\ Continue(t, "lock") /\ op[t] = "mcp_stream_cleanup"
    /\ global_lock = 0
    /\ CleanupLocked(t, op[t], local[t])
    /\ UNCHANGED <<rx, clientVars, STREAM_COUNTER, task, sent>>

\* ------------------------------------------------------------------ time
\* A step that takes no time is enabled: a mutex that is free is granted,
\* a task that runs goes on, a wait that can return returns.
Instant ==
    \/ \E t \in Threads :
          \/ pc[t] \in {"lock", "spawn", "register"} /\ global_lock = 0
          \/ pc[t] = "store" /\ global_lock = 0
                /\ (GLOBAL_CLIENT # 0 => RuntimeQuiescent(GLOBAL_CLIENT))
          \/ pc[t] = "svc" /\ ServiceFree
          \/ pc[t] = "recv" /\ \/ STREAM_CHANNELS[local[t].stream_id] # <<>>
                               \/ ~TxAlive(local[t].stream_id)
                               \/ local[t].left = 0
    \/ \E id \in StreamIds :
          \/ task[id].pc = "push"
          \/ task[id].pc = "start" /\ ServiceFree

Waiting(t) == op[t] = "mcp_stream_wait"

\* One unit of time passes.  Time passes only while every thread and task
\* is idle, waits for the remote, for a held mutex or for its timeout.
Tick ==
    /\ returned = NoReturn
    /\ ~Instant
    /\ \E t \in Threads : Waiting(t)
    /\ local' = [t \in Threads |->
                    IF Waiting(t)
                    THEN [local[t] EXCEPT
                            !.elapsed = IF @ > MaxTimeout THEN @ ELSE @ + 1,
                            !.left = IF pc[t] = "recv" /\ @ > 0 THEN @ - 1 ELSE @]
                    ELSE local[t]]
    /\ UNCHANGED <<pc, op, rx, returned, calls, cleaned, clientVars, lockVars, streamVars, pureVars>>

Next ==
    \/ Resume
    \/ Tick
    \/ \E t \in Threads :
          \/ mcp_connect_invalid(t)
          \/ mcp_client_free(t)
          \/ mcp_connect_call(t)
          \/ mcp_connect_established(t)
          \/ mcp_connect_failed(t)
          \/ mcp_connect_store(t)
          \/ mcp_list_tools_json(t)
          \/ mcp_call_tool_json(t)
          \/ cmd_lock(t)
          \/ cmd_service(t)
          \/ cmd_respond(t)
          \/ mcp_list_tools_init(t)
          \/ mcp_call_tool_init(t)
          \/ mcp_call_tool_init_invalid(t)
          \/ init_spawn(t)
          \/ init_register(t)
          \/ mcp_stream_next(t)
          \/ stream_next_lock(t)
          \/ mcp_stream_wait(t)
          \/ stream_wait_lock(t)
          \/ stream_wait_recv(t)
          \/ stream_wait_none(t)
          \/ mcp_stream_cleanup(t)
          \/ stream_cleanup_lock(t)
    \/ \E id \in StreamIds :
          \/ task_start(id)
          \/ task_respond(id)
          \/ task_push(id)

Spec == Init /\ [][Next]_vars

\* ================================================================ claims
\* The sessions that are established and not cancelled.
LiveSessions == {c \in ClientIds : service[c] = "Some"}

\* mcp_connect has just returned / an init function has just returned id.
ConnectReturned == returned.op = "mcp_connect"
InitReturned(id) == returned.op \in InitOps /\ returned.value = StreamIdValue(id)

\* C1: when mcp_connect returns, GLOBAL_CLIENT holds no client, or holds
\* the client built by that call with its session established.
C1_ConnectIdleOrOwnSession ==
    ConnectReturned =>
        \/ GLOBAL_CLIENT = 0
        \/ /\ GLOBAL_CLIENT = returned.args.new_client
           /\ service[GLOBAL_CLIENT] = "Some"

\* C2: when an mcp_connect that was entered with a client stored returns an
\* error, no client is stored and the session of the prior client is cancelled.
C2_FailedConnectLeavesIdle ==
    (ConnectReturned /\ returned.value.tag = "error" /\ returned.args.prior # 0) =>
        /\ GLOBAL_CLIENT = 0
        /\ service[returned.args.prior] = "Cancelled"

\* The step in which a command-path function run by thread t looks up the
\* global client: it goes on to the session, or returns.
C3_Lookup(t) ==
    /\ returned = NoReturn
    /\ pc[t] \in {"idle", "lock"}
    /\ \/ op'[t] \in CmdOps /\ pc'[t] \in {"svc", "req"}
       \/ returned'.thread = t /\ returned'.op \in CmdOps

\* C3: a step in which mcp_list_tools_json or mcp_call_tool_json looks up
\* the global client and finds none returns an error payload, sends no
\* request, and leaves the stored client, every session, the stream
\* registry and the stream counter as they were; a request is only ever
\* sent on the established session of the stored client.
C3_IdleCommandIsNoOp ==
    [][\A t \in Threads :
          /\ (C3_Lookup(t) /\ GLOBAL_CLIENT = 0) =>
                /\ returned'.value.tag = "error"
                /\ pc'[t] = "idle"
                /\ UNCHANGED <<clientVars, STREAM_CHANNELS, STREAM_COUNTER, task, sent>>
          /\ (op'[t] \in CmdOps /\ pc'[t] = "req" /\ pc[t] # "req") =>
                /\ GLOBAL_CLIENT # 0
                /\ service[GLOBAL_CLIENT] = "Some"]_vars

\* C3 witness: a command-path call has returned the not-connected error
\* with no client stored, after a stream id had been handed out.
C3_Witness ==
    /\ returned.op \in CmdOps
    /\ returned.value = NotConnected
    /\ GLOBAL_CLIENT = 0
    /\ STREAM_COUNTER > 0

\* The chunks sent on stream id so far are non-terminal chunks, then Done.
WellFormed(id) ==
    LET s == sent[id]
    IN \A i \in 1..Len(s) :
          /\ s[i] = Done => i = Len(s)
          /\ s[i].type = "Error" =>
                /\ \A j \in 1..Len(s) : s[j].type = "Error" => j = i
                /\ IF i < Len(s) THEN s[i + 1] = Done
                   ELSE task[id].pc = "push" /\ task[id].todo = <<Done>>

\* C4: of the chunks sent on a stream, Done is the last one, there is at
\* most one Error, and an Error is followed by Done at once: Done is the
\* next chunk, or the one send its task has left.
C4_ChunksThenDone == \A id \in StreamIds : WellFormed(id)

\* C4 witness: one stream carried tools and then Done, another an Error and
\* then Done.
C4_Witness ==
    \E a, b \in StreamIds :
        /\ Len(sent[a]) >= 2 /\ sent[a][1].type = "Tool" /\ sent[a][Len(sent[a])] = Done
        /\ Len(sent[b]) = 2 /\ sent[b][1].type = "Error" /\ sent[b][2] = Done

\* Done can still reach the caller of stream id: it was delivered, or it is
\* in the registered queue, or the stream's task is still to send it into
\* the registered queue.
DoneDelivered(id) == \E i \in 1..Len(delivered[id]) : delivered[id][i] = Done
DoneQueued(id) == \E i \in 1..Len(STREAM_CHANNELS[id]) : STREAM_CHANNELS[id][i] = Done
DoneAhead(id) ==
    \/ DoneDelivered(id)
    \/ Registered(id) /\ (DoneQueued(id) \/ task[id].pc \in {"start", "req", "push"})

\* C5: every stream id that an init function has returned and that was
\* never passed to mcp_stream_cleanup has delivered Done or can still
\* deliver it (a stream that cannot is one whose caller waits for ever).
C5_DoneReachable ==
    \A id \in StreamIds :
        (id <= STREAM_COUNTER /\ LocalHolder(id) = {} /\ cleaned[id] = 0) => DoneAhead(id)

\* C6: no thread is ever blocked inside mcp_stream_next.
C6_NextNeverBlocks ==
    \A t \in Threads : ~(op[t] = "mcp_stream_next" /\ pc[t] = "lock")

\* C7: no mcp_stream_wait is still in progress later than timeout_ms after
\* it was entered, and none returns later than that.
C7_WaitWithinTimeout ==
    /\ \A t \in Threads : Waiting(t) => local[t].elapsed <= local[t].timeout_ms
    /\ returned.op = "mcp_stream_wait" => returned.args.elapsed <= returned.args.timeout_ms

\* C8: a step in which mcp_stream_cleanup(id) runs returns nothing, leaves
\* no registry entry for id, leaves every other entry as it was, changes
\* nothing at all when id had no entry, and touches nothing but the registry.
C8_CleanupIdempotent ==
    [][(returned = NoReturn /\ returned'.op = "mcp_stream_cleanup") =>
          LET id == returned'.args.stream_id
          IN /\ returned'.value = Void
             /\ id \notin DOMAIN STREAM_CHANNELS'
             /\ \A i \in DOMAIN STREAM_CHANNELS \ {id} :
                   i \in DOMAIN STREAM_CHANNELS' /\ STREAM_CHANNELS'[i] = STREAM_CHANNELS[i]
             /\ id \notin DOMAIN STREAM_CHANNELS => STREAM_CHANNELS' = STREAM_CHANNELS
             /\ UNCHANGED <<rx, clientVars, lockVars, STREAM_COUNTER, task, sent, delivered>>]_vars

\* C8 witness: a second mcp_stream_cleanup of a stream whose task had
\* sent chunks into its registered queue has returned.
C8_Witness ==
    /\ returned.op = "mcp_stream_cleanup"
    /\ LET id == returned.args.stream_id
       IN /\ cleaned[id] = 2
          /\ task[id].pc = "done"
          /\ sent[id] # <<>>

\* C9: when an init function returns a non-zero stream id, the registry
\* holds a queue for that id.
C9_RegisteredAtReturn ==
    \A id \in StreamIds : InitReturned(id) => Registered(id)

\* C10: at most one session is established and not cancelled.
C10_OneLiveSession == Cardinality(LiveSessions) <= 1

\* C11: mcp_connect returns NULL exactly when the call has established a
\* session and stored its client as the global client.
C11_NullIffStored ==
    ConnectReturned =>
        (returned.value = Null <=>
            /\ returned.args.new_client # 0
            /\ GLOBAL_CLIENT = returned.args.new_client
            /\ service[GLOBAL_CLIENT] = "Some")

\* The remote requests in flight against the session of client c: those of
\* the command path and those of the production tasks.
InFlight(c) ==
    {ByThread(t) : t \in {u \in Threads : op[u] \in CmdOps /\ pc[u] = "req" /\ GLOBAL_CLIENT = c}}
    \cup {ByTask(id) : id \in {i \in StreamIds : task[i].pc = "req" /\ task[i].client = c}}

\* C12: at most one remote request is in flight against a session.
C12_ExclusiveSession == \A c \in ClientIds : Cardinality(InFlight(c)) <= 1

\* C12 witness: a production task has its request in flight while a
\* command-path call waits for the service mutex of the same session.
C12_Witness ==
    \E t \in Threads, id \in StreamIds :
        /\ op[t] \in CmdOps /\ pc[t] = "svc"
        /\ task[id].pc = "req" /\ task[id].client = GLOBAL_CLIENT

\* The threads that execute a command-path operation: inside mcp_connect,
\* or inside a list-tools / call-tool command that has the global client.
Executing ==
    {t \in Threads : \/ op[t] = "mcp_connect"
                     \/ op[t] \in CmdOps /\ pc[t] \in {"svc", "req"}}

\* C13: command-path operations are processed one at a time: no two of
\* them execute at once, and no handshake runs during a list-tools or
\* call-tool command.
C13_CommandsSerialized == Cardinality(Executing) <= 1

IsPrefix(a, b) == Len(a) <= Len(b) /\ SubSeq(b, 1, Len(a)) = a

\* The task of stream id is a call_tool task whose request was answered
\* with content.
Answered(id) ==
    /\ task[id].kind = "call_tool"
    /\ task[id].pc \in {"push", "done"}
    /\ \A i \in 1..Len(sent[id]) : sent[id][i].type # "Error"

Failed(id) == sent[id] # <<>> /\ sent[id][1].type = "Error"

\* The Error and Done of a failed stream that was returned to its caller
\* and never cleaned up are in its registered queue or were delivered.
FailureObservable(id) ==
    (Failed(id) /\ LocalHolder(id) = {} /\ cleaned[id] = 0) =>
        /\ Registered(id)
        /\ sent[id] = delivered[id] \o STREAM_CHANNELS[id]
        /\ Len(sent[id] \o task[id].todo) = 2
        /\ (sent[id] \o task[id].todo)[2] = Done

\* C15: a step in which the production of a stream fails leaves the queues
\* of all other streams, the registry's other entries and the stored client
\* and sessions as they were, and the Error and Done of a failed stream are
\* observable on its own id.
C15_FailedTaskIsolated ==
    [][/\ \A id \in StreamIds :
             (~Failed(id) /\ Failed(id)') =>
                 /\ UNCHANGED clientVars
                 /\ \A j \in StreamIds \ {id} :
                        /\ Registered(j) <=> Registered(j)'
                        /\ Registered(j) => STREAM_CHANNELS'[j] = STREAM_CHANNELS[j]
       /\ \A id \in StreamIds : FailureObservable(id)']_vars

\* Stream id was handed to its caller with a production task, and
\* mcp_stream_cleanup has removed its registry entry.
Abandoned(id) ==
    /\ id <= STREAM_COUNTER
    /\ task[id].pc # "none"
    /\ LocalHolder(id) = {}
    /\ cleaned[id] > 0
    /\ ~Registered(id)

\* C16: mcp_stream_cleanup leaves every production task as it is; once the
\* entry of a stream is removed it stays removed, a send of its task goes
\* nowhere (no queue and no receiver changes) while the task goes on,
\* nothing more is delivered for the id, and mcp_stream_next and
\* mcp_stream_wait on the id return NULL.
C16_CleanupWhileRunning ==
    [][/\ (returned = NoReturn /\ returned'.op = "mcp_stream_cleanup") => task' = task
       /\ \A id \in StreamIds :
             Abandoned(id) =>
                 /\ ~Registered(id)'
                 /\ delivered'[id] = delivered[id]
                 /\ sent'[id] # sent[id] =>
                        /\ UNCHANGED <<STREAM_CHANNELS, rx>>
                        /\ task'[id].pc \in {"push", "done"}
                 /\ ( /\ returned = NoReturn
                      /\ returned'.op \in {"mcp_stream_next", "mcp_stream_wait"}
                      /\ returned'.args.stream_id = id ) => returned'.value = Null]_vars

\* C16 witness: a poll or wait of a stream that was cleaned up has returned
\* NULL while the stream's task is between two sends.
C16_Witness ==
    /\ returned.op \in {"mcp_stream_next", "mcp_stream_wait"}
    /\ returned.value = Null
    /\ Abandoned(returned.args.stream_id)
    /\ task[returned.args.stream_id].pc = "push"


\* ---------------------------------------------------------------------
\* The arguments document of a tool call, from the text handed in to the
\* request parameter (serde_json::from_str, then Value::as_object).
\* Integer literals are decimal digit sequences, most significant first.

U64_MAX == <<1, 8, 4, 4, 6, 7, 4, 4, 0, 7, 3, 7, 0, 9, 5, 5, 1, 6, 1, 5>>
F64_INTEGERS == <<9, 0, 0, 7, 1, 9, 9, 2, 5, 4, 7, 4, 0, 9, 9, 2>>

Less(a, b) ==
    \/ Len(a) < Len(b)
    \/ /\ Len(a) = Len(b)
       /\ \E i \in 1..Len(a) :
            /\ a[i] < b[i]
            /\ \A j \in 1..(i - 1) : a[j] = b[j]

FitsU64(d) == d = U64_MAX \/ Less(d, U64_MAX)

RECURSIVE HalveFrom(_, _, _, _)
HalveFrom(d, i, carry, acc) ==
    IF i > Len(d) THEN acc
    ELSE LET cur == carry * 10 + d[i]
             q == cur \div 2
         IN  HalveFrom(d, i + 1, cur % 2,
                       IF acc = <<>> /\ q = 0 THEN acc ELSE Append(acc, q))

Halve(d) == HalveFrom(d, 1, 0, <<>>)

RECURSIVE OddPart(_)
OddPart(d) == IF d # <<>> /\ d[Len(d)] % 2 = 0 THEN OddPart(Halve(d)) ELSE d

\* An integer is a 64-bit float exactly when its odd part is below 2^53.
Representable(d) == Less(OddPart(d), F64_INTEGERS)

\* An integer literal that fits u64 is kept as it is; a longer one becomes
\* a 64-bit float, which cannot be the literal's value unless that value is
\* representable (and then the digit-dropping conversion may still miss it).
Exactness(d) ==
    IF FitsU64(d) THEN {TRUE}
    ELSE IF Representable(d) THEN {TRUE, FALSE}
    ELSE {FALSE}

StringLiteral == [type |-> "string", text |-> "x", digits |-> <<>>]
NumberLiteral(d) == [type |-> "number", text |-> "", digits |-> d]

IntegerLiterals ==
    { <<7>>,
      <<9, 0, 0, 7, 1, 9, 9, 2, 5, 4, 7, 4, 0, 9, 9, 3>>,
      U64_MAX,
      <<1, 8, 4, 4, 6, 7, 4, 4, 0, 7, 3, 7, 0, 9, 5, 5, 1, 6, 1, 6>>,
      <<1, 8, 4, 4, 6, 7, 4, 4, 0, 7, 3, 7, 0, 9, 5, 5, 1, 6, 1, 7>> }

Literals == {StringLiteral} \cup {NumberLiteral(d) : d \in IntegerLiterals}

Keys == {"a", "b"}

Document(type, members) == [type |-> type, members |-> members]

\* Objects with unique keys: one literal per key.
Objects ==
    UNION { { Document("object", {<<k, f[k]>> : k \in ks}) : f \in [ks -> Literals] }
            : ks \in SUBSET Keys }

Documents ==
    Objects \cup {Document("array", {}), Document("string", {}), Document("null", {}),
                  Document("malformed", {})}

\* What the parsed value of a literal is: the same string, or the number
\* with the mark of whether the literal's value survived.
Parsed(literal, exact) ==
    [type |-> literal.type, text |-> literal.text,
     digits |-> literal.digits, exact |-> exact]

parse_value(doc) ==
    IF doc.type # "object" THEN {[type |-> doc.type, members |-> {}]}
    ELSE LET ks == {m[1] : m \in doc.members}
             lit(k) == CHOOSE l \in Literals : <<k, l>> \in doc.members
             outcomes(k) == IF lit(k).type = "number" THEN Exactness(lit(k).digits)
                            ELSE {TRUE}
         IN  { [type |-> "object",
                members |-> {<<k, Parsed(lit(k), e[k])>> : k \in ks}]
               : e \in {g \in [ks -> BOOLEAN] : \A k \in ks : g[k] \in outcomes(k)} }

\* Value::as_object().cloned(): the map of an object, nothing otherwise.
as_object(by, value) ==
    [by |-> by, outcome |-> "request",
     present |-> value.type = "object", members |-> value.members]

InvalidJson(by) == [by |-> by, outcome |-> "error", present |-> FALSE, members |-> {}]

Forward(by, value) ==
    IF value.type = "malformed" THEN InvalidJson(by) ELSE as_object(by, value)

\* mcp_call_tool_json: parse, then build the request parameter.
call_tool_json_arguments ==
    /\ forwarded = NotForwarded
    /\ \E value \in parse_value(payload) :
        forwarded' = Forward("mcp_call_tool_json", value)
    /\ UNCHANGED <<threadVars, clientVars, lockVars, streamVars, payload, fieldVars, answerVars>>

\* The production task of mcp_call_tool_init: the same two steps.
call_tool_init_arguments ==
    /\ forwarded = NotForwarded
    /\ \E value \in parse_value(payload) :
        forwarded' = Forward("mcp_call_tool_init", value)
    /\ UNCHANGED <<threadVars, clientVars, lockVars, streamVars, payload, fieldVars, answerVars>>

ArgInit ==
    /\ ProgramInit
    /\ payload \in Documents
    /\ forwarded = NotForwarded
    /\ NoFieldCall
    /\ NoAnswerCall

ArgNext ==
    \/ call_tool_json_arguments
    \/ call_tool_init_arguments

ArgSpec == ArgInit /\ [][ArgNext]_vars

\* C17: every JSON object with unique keys passed as arguments reaches the
\* remote with the same key set and the same values.
C17_ArgumentsRoundTrip ==
    (payload.type = "object" /\ forwarded.by # "none") =>
        /\ forwarded.outcome = "request"
        /\ forwarded.present
        /\ {m[1] : m \in forwarded.members} = {m[1] : m \in payload.members}
        /\ \A m \in forwarded.members :
            /\ m[2].exact
            /\ <<m[1], [type |-> m[2].type, text |-> m[2].text, digits |-> m[2].digits]>>
                   \in payload.members


\* A request of the remote's CallTool is in flight with arguments kind a.
CallToolInFlight(a) ==
    \/ \E t \in Threads :
          pc[t] = "req" /\ op[t] = "mcp_call_tool_json" /\ local[t].arguments = a
    \/ \E id \in StreamIds :
          task[id].pc = "req" /\ task[id].kind = "call_tool" /\ task[id].arguments = a

\* The two chunks of a stream whose production was refused or failed.
ErrorThenDone(cs) == Len(cs) = 2 /\ cs[1].type = "Error" /\ cs[2] = Done

\* mcp_call_tool_init has just returned the id of a stream whose arguments
\* do not parse.
MalformedInitReturned(id) ==
    /\ InitReturned(id)
    /\ returned.op = "mcp_call_tool_init"
    /\ returned.args.arguments = "malformed"

\* C18: no CallTool request is in flight with arguments that do not parse
\* (what is forwarded is the object, or nothing for another JSON value);
\* mcp_call_tool_json answers such arguments with the invalid-JSON error;
\* and the stream that mcp_call_tool_init returns for such arguments is
\* registered and carries an Error chunk then Done and nothing else.
C18_MalformedNeverForwarded ==
    /\ ~CallToolInFlight("malformed")
    /\ (returned.op = "mcp_call_tool_json" /\ returned.args.arguments = "malformed") =>
           returned.value = ErrorJson("Invalid JSON")
    /\ \A id \in StreamIds :
          MalformedInitReturned(id) =>
              /\ Registered(id)
              /\ \E cs \in {sent[id] \o task[id].todo} \cup
                           {sent[id] \o rest : rest \in {<<Chunk("Error", "Invalid JSON arguments"), Done>>,
                                                         <<Chunk("Error", "Not connected. Call mcp_connect() first"), Done>>}} :
                     ErrorThenDone(cs)

\* A call made with a NULL or invalidly encoded required input returns in
\* this step.
InvalidInputReturns ==
    /\ returned = NoReturn
    /\ returned'.args.arguments \in InvalidInputs

\* C19: a call with a NULL or invalidly encoded required input returns an
\* error payload (mcp_connect, mcp_call_tool_json) or 0 (mcp_call_tool_init)
\* and leaves the stored client, the sessions, the locks, the registry, the
\* counter, the production tasks and every queue unchanged.
C19_InvalidInputRefused ==
    [][InvalidInputReturns =>
          /\ returned'.op \in {"mcp_connect", "mcp_call_tool_json", "mcp_call_tool_init"}
          /\ returned'.op = "mcp_call_tool_init" => returned'.value = StreamIdValue(0)
          /\ returned'.op # "mcp_call_tool_init" =>
                 \E msg \in {"Invalid arguments", "Invalid server URL", "Invalid arguments JSON"} :
                     returned'.value = ErrorJson(msg)
          /\ UNCHANGED <<clientVars, lockVars, streamVars, rx, cleaned>>]_vars

\* mcp_call_tool_init has returned 0 for an invalid input while a client is
\* stored and a stream id has been handed out.
C19_Witness ==
    /\ returned.op = "mcp_call_tool_init"
    /\ returned.args.arguments \in InvalidInputs
    /\ returned.value = StreamIdValue(0)
    /\ GLOBAL_CLIENT # 0
    /\ STREAM_COUNTER = 1
    /\ Registered(1)

\* C20: what mcp_stream_next returns tells its three outcomes apart: a
\* chunk, "no data yet" for a registered id with nothing queued, and
\* "unknown stream" for an id that is not registered (never handed out, or
\* cleaned up).
C20_OutcomesDistinct ==
    returned.op = "mcp_stream_next" =>
        LET id == returned.args.stream_id
            chunk == returned.value.tag = "StreamResult"
        IN  /\ ~Registered(id) =>
                  /\ returned.value = UnknownStream
                  /\ returned.value # NoData
                  /\ ~chunk
            /\ Registered(id) =>
                  /\ returned.value # UnknownStream
                  /\ chunk \/ returned.value = NoData

\* Thread t is inside mcp_list_tools_init or mcp_call_tool_init with an id.
InInit(t) == op[t] \in InitOps /\ pc[t] # "idle"

\* Stream id was returned by an init call that has completed.
Completed(id) == id >= 1 /\ id <= STREAM_COUNTER /\ LocalHolder(id) = {}

\* C21 as stated: a returned non-zero id is greater than every id returned
\* by a call that completed earlier.
C21_IdsIncreaseInCompletionOrder ==
    \A id \in StreamIds :
        InitReturned(id) => \A j \in StreamIds : Completed(j) => j <= id

\* C21: the id an init call takes is greater than every id taken before it
\* (so no two calls return the same id, and an id is greater than those of
\* the calls that completed before the call began), the call keeps its id
\* and returns it, the counter never goes back, and 0 is never registered.
C21_IdsUniqueInOrderTaken ==
    [][/\ STREAM_COUNTER' >= STREAM_COUNTER
       /\ \A t \in Threads :
             /\ (~InInit(t) /\ InInit(t)') =>
                    /\ local'[t].stream_id > STREAM_COUNTER
                    /\ local'[t].stream_id = STREAM_COUNTER'
             /\ (InInit(t) /\ InInit(t)') => local'[t].stream_id = local[t].stream_id
             /\ (InInit(t) /\ ~InInit(t)') =>
                    /\ returned'.thread = t
                    /\ returned'.value = StreamIdValue(local[t].stream_id)
       /\ ~Registered(0)']_vars

\* Id 2 is returned after id 1 was returned and registered.
C21_Witness == InitReturned(2) /\ Completed(1) /\ Registered(1) /\ Registered(2)

\* C22: when the teardown call of the FFI returns, no client is stored and
\* no session is live, so that mcp_list_tools_json and mcp_call_tool_json
\* report not-connected until the next successful connect.
C22_DisconnectToIdle ==
    returned.op = "mcp_client_free" => (GLOBAL_CLIENT = 0 /\ LiveSessions = {})

\* The runtimes on which asynchronous work has run or runs: one is built
\* with every McpClient, and a production task runs on its client's.
RuntimesUsed == 1..nclients

\* C23: one runtime is created per process, and the handshakes, the
\* command-path exchanges and the production tasks all run on it.
C23_OneRuntime ==
    /\ Cardinality(RuntimesUsed) <= 1
    /\ \A t \in Threads : pc[t] \in {"handshake", "store"} => local[t].new_client = 1
    /\ \A id \in StreamIds : task[id].pc # "none" => task[id].client = 1

\* ---------------------------------------------------------------------
\* mcp_parse_tools_json, mcp_get_tool_field, mcp_parse_call_result_json and
\* mcp_get_call_result_text on a JSON document.  A value is a string (a
\* sequence of characters), a number, an object (its members) or an array
\* (its items); a string may hold the character U+0000.

MaxIndex == 3
MaxArray == 2

Value(type, text, fields, items) ==
    [type |-> type, text |-> text, fields |-> fields, items |-> items]

Str(text) == Value("string", text, {}, <<>>)
\* The number 7; its text is what serde_json::to_string writes for it.
Num == Value("number", <<"7">>, {}, <<>>)
Obj(fields) == Value("object", <<>>, fields, <<>>)
Arr(items) == Value("array", <<>>, {}, items)
Malformed == Value("malformed", <<>>, {}, <<>>)

\* Value::get(key): the member of an object, None otherwise.
get(v, key) ==
    IF v.type = "object" /\ \E m \in v.fields : m[1] = key
    THEN (CHOOSE m \in v.fields : m[1] = key)[2]
    ELSE NoValue

IsSome(v) == v # NoValue

\* Value::as_array(): the array itself, None otherwise.
as_array(v) == IF v.type = "array" THEN v ELSE NoValue

\* Option::or_else.
or_else(a, b) == IF IsSome(a) THEN a ELSE b

\* Vec::get(i): the item of index i (from 0), None out of bounds.
item_at(arr, i) == IF i < Len(arr.items) THEN arr.items[i + 1] ELSE NoValue

\* CString::new(text).into_raw(), or NULL when the text holds U+0000.
CStringNew_or_null(fn, text) ==
    IF \E i \in 1..Len(text) : text[i] = NUL
    THEN [fn |-> fn, count |-> 0, null |-> TRUE, text |-> <<>>]
    ELSE [fn |-> fn, count |-> 0, null |-> FALSE, text |-> text]

CountAnswer(fn, n) == [fn |-> fn, count |-> n, null |-> FALSE, text |-> <<>>]

\* The tools of a document.
Tools ==
    { Obj({<<"name", Str(<<"x">>)>>}),
      Obj({<<"name", Str(<<"x", NUL>>)>>}),
      Obj({<<"name", Num>>}),
      Obj({<<"title", Str(<<"t">>)>>}),
      Num }

\* The items of a call result's content.
ContentItems ==
    { Obj({<<"type", Str(<<"text">>)>>, <<"text", Str(<<"x">>)>>}),
      Obj({<<"type", Str(<<"text">>)>>, <<"text", Str(<<"x", NUL>>)>>}),
      Obj({<<"type", Str(<<"image">>)>>}) }

Arrays(S) == UNION { [1..n -> S] : n \in 0..MaxArray }

ToolsDocuments ==
    { Obj({<<"tools", Arr(l)>>}) : l \in Arrays(Tools) }
    \cup { Obj({<<"name", Str(<<"x">>)>>}), Obj({<<"tools", Num>>}), Malformed }

ResultDocuments ==
    { Obj({<<"content", Arr(l)>>}) : l \in Arrays(ContentItems) }
    \cup { Obj({<<"result", Obj({<<"content", Arr(l)>>})>>}) : l \in Arrays(ContentItems) }
    \cup { Obj({<<"content", Num>>}), Malformed }

FieldNames == {"name", "title", "id"}
ToolFields == {"name", "title", "description", "inputSchema", "outputSchema", "annotations"}

mcp_parse_tools_json(doc) ==
    IF doc.type = "malformed" THEN 0
    ELSE LET tools == as_array(get(doc, "tools"))
         IN  IF IsSome(tools) THEN Len(tools.items) ELSE 0

mcp_get_tool_field(doc, i, field) ==
    LET fn == "mcp_get_tool_field"
        tools == as_array(get(doc, "tools"))
        tool == IF IsSome(tools) THEN item_at(tools, i)
                ELSE IF i = 0 THEN doc
                ELSE NoValue
        value == IF field \in ToolFields THEN get(tool, field) ELSE NoValue
    IN  IF doc.type # "malformed" /\ IsSome(tool) /\ IsSome(value)
        THEN CStringNew_or_null(fn, value.text)
        ELSE CStringNew_or_null(fn, <<>>)

\* json.get("content") as an array, or else json.get("result").get("content").
content_array(doc) ==
    or_else(as_array(get(doc, "content")), as_array(get(get(doc, "result"), "content")))

mcp_parse_call_result_json(doc) ==
    IF doc.type = "malformed" THEN 0
    ELSE IF IsSome(content_array(doc)) THEN Len(content_array(doc).items) ELSE 0

mcp_get_call_result_text(doc, i) ==
    LET fn == "mcp_get_call_result_text"
        content == content_array(doc)
        item == IF IsSome(content) THEN item_at(content, i) ELSE NoValue
        text == get(item, "text")
    IN  IF doc.type # "malformed" /\ text.type = "string"
        THEN CStringNew_or_null(fn, text.text)
        ELSE CStringNew_or_null(fn, <<>>)

FieldInit ==
    /\ ProgramInit
    /\ payload = NoPayload
    /\ forwarded = NotForwarded
    /\ json_str \in ToolsDocuments \cup ResultDocuments
    /\ index \in 0..MaxIndex
    /\ field_name \in FieldNames
    /\ answer = NoAnswer
    /\ NoAnswerCall

Asked(result) ==
    /\ answer = NoAnswer
    /\ answer' = result
    /\ UNCHANGED <<threadVars, clientVars, lockVars, streamVars, argVars, answerVars>>
    /\ UNCHANGED <<json_str, index, field_name>>

parse_tools_json ==
    /\ json_str \in ToolsDocuments
    /\ Asked(CountAnswer("mcp_parse_tools_json", mcp_parse_tools_json(json_str)))

get_tool_field ==
    /\ json_str \in ToolsDocuments
    /\ Asked(mcp_get_tool_field(json_str, index, field_name))

parse_call_result_json ==
    /\ json_str \in ResultDocuments
    /\ Asked(CountAnswer("mcp_parse_call_result_json", mcp_parse_call_result_json(json_str)))

get_call_result_text ==
    /\ json_str \in ResultDocuments
    /\ Asked(mcp_get_call_result_text(json_str, index))

FieldNext ==
    \/ parse_tools_json
    \/ get_tool_field
    \/ parse_call_result_json
    \/ get_call_result_text

FieldSpec == FieldInit /\ [][FieldNext]_vars

\* C24: for a valid JSON document, mcp_get_tool_field and
\* mcp_get_call_result_text return NULL for every index at or beyond the
\* count that mcp_parse_tools_json / mcp_parse_call_result_json reports,
\* and a string for every index below it.
C24_NullOutOfBounds ==
    /\ (answer.fn = "mcp_get_tool_field" /\ json_str.type # "malformed") =>
           (answer.null <=> index >= mcp_parse_tools_json(json_str))
    /\ (answer.fn = "mcp_get_call_result_text" /\ json_str.type # "malformed") =>
           (answer.null <=> index >= mcp_parse_call_result_json(json_str))

\* The stored client, if any, holds an established session, and neither
\* "Not connected to server" nor the stream Error "Not connected. Call
\* mcp_connect() first" has been produced.
SessionWithClient ==
    /\ GLOBAL_CLIENT # 0 => service[GLOBAL_CLIENT] = "Some"
    /\ returned.value # ErrorJson("Not connected to server")
    /\ \A id \in StreamIds : \A i \in 1..Len(sent[id]) :
           sent[id][i] # Chunk("Error", "Not connected. Call mcp_connect() first")

\* C25: whenever a client is stored its service slot holds an established
\* session, the two not-connected branches behind the lookup are never
\* taken, and once a client is stored one is stored ever after.
C25_StoredClientHasSession ==
    [][/\ SessionWithClient'
       /\ GLOBAL_CLIENT # 0 => GLOBAL_CLIENT' # 0]_vars

\* After a reconnect, a command has found the session of the stored client
\* and its request is in flight.
C25_Witness ==
    /\ GLOBAL_CLIENT = 2
    /\ service[1] = "Cancelled"
    /\ \E t \in Threads : pc[t] = "req" /\ op[t] \in CmdOps

\* A step of a call that is under way or of a production task (the store
\* of mcp_connect apart).
Proceeds ==
    \/ Resume
    \/ \E t \in Threads :
          \/ mcp_connect_established(t)
          \/ mcp_connect_failed(t)
          \/ cmd_lock(t)
          \/ cmd_service(t)
          \/ cmd_respond(t)
          \/ init_spawn(t)
          \/ init_register(t)
          \/ stream_next_lock(t)
          \/ stream_wait_lock(t)
          \/ stream_wait_recv(t)
          \/ stream_wait_none(t)
          \/ stream_cleanup_lock(t)
    \/ \E id \in StreamIds :
          \/ task_start(id)
          \/ task_respond(id)
          \/ task_push(id)

\* An mcp_connect that has its session can store its client.
CanStore == returned = NoReturn /\ StoreReady /\ \E t \in Threads : pc[t] = "store"

\* A timed receive of mcp_stream_wait has time left on its timeout.
TimerRuns == \E t \in Threads : pc[t] = "recv" /\ local[t].left > 0

\* Thread t waits for the GLOBAL_CLIENT mutex.
WaitsForGlobal(t) == pc[t] \in {"lock", "spawn", "register", "store"}

\* C26: while a call is under way some call or task can take a step or a
\* timeout is running (the remote answers every request), and the mutexes
\* are taken in one order: the registry lock and, by a caller, the session
\* lock only under the GLOBAL_CLIENT mutex, and the GLOBAL_CLIENT mutex
\* never by a thread that holds a lock.
C26_NoDeadlock ==
    /\ (\E t \in Threads : pc[t] # "idle") => (ENABLED Proceeds \/ CanStore \/ TimerRuns)
    /\ channels_lock # 0 => global_lock = channels_lock
    /\ \A t \in Threads :
          /\ service_lock = ByThread(t) => global_lock = t
          /\ WaitsForGlobal(t) =>
                 (global_lock # t /\ service_lock # ByThread(t) /\ channels_lock # t)

\* A caller waits for the GLOBAL_CLIENT mutex, held by a command that waits
\* for the session lock, held by a production task.
C26_Witness ==
    \E t, u \in Threads : \E id \in StreamIds :
        /\ pc[t] = "lock"
        /\ pc[u] = "svc" /\ global_lock = u
        /\ service_lock = ByTask(id)

\* A step in which an mcp_connect stores its client over a stored one.
Reconnects == GLOBAL_CLIENT # 0 /\ GLOBAL_CLIENT' # GLOBAL_CLIENT

\* C27: a successful mcp_connect that replaces a session leaves the stream
\* registry (ids and queued chunks) and the stream-id counter as they were,
\* and the chunks of a stream of a replaced client are handed out in the
\* order sent: what was delivered and what is queued make up what was sent.
C27_ReconnectKeepsStreams ==
    [][/\ Reconnects => UNCHANGED <<STREAM_COUNTER, STREAM_CHANNELS, sent, delivered>>
       /\ \A id \in StreamIds :
             (Registered(id)' /\ task[id]'.client # GLOBAL_CLIENT') =>
                 sent'[id] = delivered'[id] \o STREAM_CHANNELS'[id]]_vars

\* After a reconnect mcp_stream_next or mcp_stream_wait has handed out a
\* chunk that a task of the replaced client had queued.
C27_Witness ==
    /\ returned.op \in {"mcp_stream_next", "mcp_stream_wait"}
    /\ returned.value # Null
    /\ LET id == returned.args.stream_id
       IN  /\ task[id].pc \in {"done", "cancelled"}
           /\ task[id].client # GLOBAL_CLIENT
           /\ service[task[id].client] = "Cancelled"

\* Stream j is left as it is: its registry entry, its queue, the receiver a
\* caller still holds for it, and what was sent and delivered on it.
Untouched(j) ==
    /\ Registered(j)' <=> Registered(j)
    /\ Registered(j) => STREAM_CHANNELS'[j] = STREAM_CHANNELS[j]
    /\ \A t \in LocalHolder(j) : rx'[t] = rx[t]
    /\ sent'[j] = sent[j]
    /\ delivered'[j] = delivered[j]

\* C28: a send of the task of stream A changes no other stream; a chunk is
\* handed out only by a poll or wait on the id it was sent on, as the next
\* chunk of that id; and a poll, wait or cleanup on A leaves every other
\* stream untouched.
C28_StreamsIsolated ==
    [][\A id \in StreamIds :
          /\ sent'[id] # sent[id] => \A j \in StreamIds \ {id} : Untouched(j)
          /\ delivered'[id] # delivered[id] =>
                 /\ returned'.op \in {"mcp_stream_next", "mcp_stream_wait"}
                 /\ returned'.args.stream_id = id
                 /\ IsPrefix(delivered'[id], sent'[id])
                 /\ returned'.value = chunk_to_stream_result(delivered'[id][Len(delivered'[id])])
          /\ (returned = NoReturn
                /\ returned'.op \in {"mcp_stream_next", "mcp_stream_wait", "mcp_stream_cleanup"}
                /\ returned'.args.stream_id = id) =>
                 \A j \in StreamIds \ {id} : Untouched(j)]_vars

\* A poll on stream 1 has handed out a chunk while stream 2 is registered
\* with chunks queued.
C28_Witness ==
    /\ returned.op = "mcp_stream_next"
    /\ returned.args.stream_id = 1
    /\ returned.value # Null
    /\ Registered(2)
    /\ STREAM_CHANNELS[2] # <<>>

\* ---------------------------------------------------------------------
\* One answer of the remote as the command path and the streaming path
\* hand it to the caller.  The name of a tool and the text of a content
\* item are texts (sequences of atoms, as for the result of mcp_connect).

Names == {<<"x">>, <<"y", QUOTE>>, <<"z", NUL>>}

ToolItems == {[type |-> "tool", text |-> n] : n \in Names}
CallItems == {[type |-> "text", text |-> n] : n \in Names} \cup {[type |-> "image", text |-> <<>>]}

Responses ==
    { [kind |-> "list_tools", ok |-> TRUE, items |-> l] : l \in Arrays(ToolItems) }
    \cup { [kind |-> "call_tool", ok |-> TRUE, items |-> l] : l \in Arrays(CallItems) }
    \cup { [kind |-> k, ok |-> FALSE, items |-> <<>>] : k \in {"list_tools", "call_tool"} }

\* serde_json::to_string of the answer: every item with its type and its
\* text as a JSON string (escaped); Err gives the error object.
to_json(resp) ==
    [made |-> TRUE, error |-> ~resp.ok,
     items |-> [i \in 1..Len(resp.items) |->
                   [type |-> resp.items[i].type, text |-> to_string(resp.items[i].text)]]]

\* CString::new(text), or the fallback when the text holds U+0000.
CStringNew_or(text, fallback) ==
    IF \E i \in 1..Len(text) : text[i] = NUL THEN fallback ELSE text

StreamResult(result_type, data) == [result_type |-> result_type, data |-> data]

\* chunk_to_stream_result on the chunk of a tool: the tool as JSON.
ToolResult(item) ==
    StreamResult(STREAM_TYPE_TOOL, CStringNew_or(to_string(item.text), <<LBRACE, RBRACE>>))

\* chunk_to_stream_result on a Text chunk: the text itself.
TextResult(item) == StreamResult(STREAM_TYPE_TEXT, CStringNew_or(item.text, <<>>))

RECURSIVE TextResults(_)
TextResults(items) ==
    IF items = <<>> THEN <<>>
    ELSE (IF Head(items).type = "text" THEN <<TextResult(Head(items))>> ELSE <<>>)
         \o TextResults(Tail(items))

\* What the polls of the stream of the answer return, in order.
to_stream(resp) ==
    IF ~resp.ok THEN <<StreamResult(STREAM_TYPE_ERROR, <<"failed">>), StreamResult(STREAM_TYPE_DONE, <<>>)>>
    ELSE (IF resp.kind = "list_tools"
          THEN [i \in 1..Len(resp.items) |-> ToolResult(resp.items[i])]
          ELSE TextResults(resp.items))
         \o <<StreamResult(STREAM_TYPE_DONE, <<>>)>>

AnswerInit ==
    /\ ProgramInit
    /\ payload = NoPayload
    /\ forwarded = NotForwarded
    /\ NoFieldCall
    /\ response \in Responses
    /\ json_result = NoJson
    /\ stream_results = <<>>

\* mcp_list_tools_json / mcp_call_tool_json return the answer.
answer_json ==
    /\ json_result = NoJson
    /\ json_result' = to_json(response)
    /\ UNCHANGED <<threadVars, clientVars, lockVars, streamVars, argVars, fieldVars>>
    /\ UNCHANGED <<response, stream_results>>

\* The stream of mcp_list_tools_init / mcp_call_tool_init is polled to Done.
answer_stream ==
    /\ stream_results = <<>>
    /\ stream_results' = to_stream(response)
    /\ UNCHANGED <<threadVars, clientVars, lockVars, streamVars, argVars, fieldVars>>
    /\ UNCHANGED <<response, json_result>>

AnswerNext ==
    \/ answer_json
    \/ answer_stream

AnswerSpec == AnswerInit /\ [][AnswerNext]_vars

\* The text a caller reads from a JSON string.
Decoded(literal) == ScanString(literal, 2, <<>>).value

\* The texts of the items of type text of the command path's result.
RECURSIVE JsonTexts(_)
JsonTexts(items) ==
    IF items = <<>> THEN <<>>
    ELSE (IF Head(items).type = "text" THEN <<Decoded(Head(items).text)>> ELSE <<>>)
         \o JsonTexts(Tail(items))

\* The results of the stream short of its closing Done.
Chunks == SubSeq(stream_results, 1, Len(stream_results) - 1)

\* C29: for one answer of the remote, the Tool chunks of the stream name
\* the tools of the "tools" array of the command path in the same order,
\* and the Text chunks are the texts of the items of type text of its
\* content, in order, the other items left out.
C29_PathsAgree ==
    (json_result.made /\ stream_results # <<>> /\ response.ok) =>
        IF response.kind = "list_tools"
        THEN /\ Len(Chunks) = Len(json_result.items)
             /\ \A i \in 1..Len(Chunks) :
                    /\ Chunks[i].result_type = STREAM_TYPE_TOOL
                    /\ Decoded(Chunks[i].data) = Decoded(json_result.items[i].text)
        ELSE /\ \A i \in 1..Len(Chunks) : Chunks[i].result_type = STREAM_TYPE_TEXT
             /\ [i \in 1..Len(Chunks) |-> Chunks[i].data] = JsonTexts(json_result.items)
====
